---- MODULE Spec2Model ----
(***************************************************************************)
(* A model of 2D-GO (src/main.go): the Game struct, Game.Update with its   *)
(* four mode branches, Game.Reset, and the score table of loadScores and   *)
(* saveScores.  One action is one call of Game.Update.                     *)
(*                                                                         *)
(* Numbers.  Player, Bullet and Enemy coordinates are float64 in the code  *)
(* but only ever hold integers (multiples of the speeds), so they are      *)
(* integers here.  An EnemyBullet's position and velocity are genuinely    *)
(* fractional (dx / length * 5): they are kept in fixed point, in units    *)
(* of 1/Scale, with the square root and the division rounded towards zero. *)
(*                                                                         *)
(* Strings are sequences of one-character strings.                         *)
(***************************************************************************)
EXTENDS Integers, Sequences, FiniteSets, TLC

\* ------------------------------------------------------------ constants
screenWidth == 640
screenHeight == 480
PlayerSize == 32
speed == 4
BulletSpeedY == 8
BulletSize == 6
EnemySize == 32
EnemySpeedY == -2
EnemyBulletSpeed == 5
EnemyBulletSize == 6
SpawnMargin == 32
SpawnCooldownBase == 30
FireCooldownBase == 60
CooldownSpan == 60
StartInterval == 90
BatchBase == 90
MinInterval == 10
RampPeriod == 120
RampStep == 5
BatchDivisor == 20
MaxNameLen == 12
MinCustom == 100

\* --------------------------------------------------------------- bounds
\* Fixed-point units per pixel of an enemy bullet's position and velocity.
Scale == 16
\* Spec: an Update in playing mode is taken only while elapsedFrames is below it.
MaxFrames == 160
\* SpecMove: the same cap for the free-movement specification.
MoveFrames == 200
\* SpecRamp: the same cap for the long scripted session.
RampFrames == 2050
\* SpecClose: the same cap for the session of shots at arriving batches.
CloseFrames == 200
\* SpecDrift: the same cap for the dodging session, and the number of ticks
\* after which the dodging player turns round.
DriftFrames == 400
TurnEvery == 120
\* Characters are typed into the username only while it is shorter than this.
MaxTyped == 1

\* -------------------------------------------------------------- helpers
Abs(n) == IF n < 0 THEN -n ELSE n

Sign(n) == IF n < 0 THEN -1 ELSE IF n > 0 THEN 1 ELSE 0

Max(a, b) == IF a >= b THEN a ELSE b

\* [f(s[1]), ..., f(s[n])]
Map(f(_), s) == [i \in 1..Len(s) |-> f(s[i])]

RECURSIVE ISqrtIn(_, _, _)
\* The largest r in lo..hi with r * r <= n (lo * lo <= n is given).
ISqrtIn(n, lo, hi) ==
    IF lo >= hi THEN lo
    ELSE LET mid == (lo + hi + 1) \div 2
         IN  IF mid * mid <= n THEN ISqrtIn(n, mid, hi) ELSE ISqrtIn(n, lo, mid - 1)

\* math.Sqrt rounded down to an integer.
ISqrt(n) == ISqrtIn(n, 0, 20000)

\* ------------------------------------------------------------ the state
VARIABLES
    keys,           \* Game.keys: the held direction keys, refreshed by every Update
    gameState,      \* "menu", "playing", "dead", "settings"
    lastGameState,  \* the mode settings returns to ("" until first set)
    player,         \* [X, Y, Size]
    bullets,        \* sequence of Bullet
    enemies,        \* sequence of Enemy
    enemyBullets,   \* sequence of EnemyBullet
    spawnCounter,
    spawnInterval,
    elapsedFrames,
    score,
    deathScore,
    username,
    usernameInput,
    dropdownOpen,
    selectedScreen,
    customWidth,
    customHeight,
    customInput,
    customInputStr,
    scores,         \* the global ScoreData: [isNil, HighScores]
    scoreFile,      \* the content of scores.json: [kind, table]
    panicked,       \* the process died of a run-time panic inside Update
    obs,            \* what the last Update call did (history, not program state)
    call            \* a call of a pure function: its arguments and its result

vars == <<keys, gameState, lastGameState, player, bullets, enemies, enemyBullets,
          spawnCounter, spawnInterval, elapsedFrames, score, deathScore,
          username, usernameInput, dropdownOpen, selectedScreen, customWidth,
          customHeight, customInput, customInputStr, scores, scoreFile,
          panicked, obs, call>>

session == <<player, bullets, enemies, enemyBullets, spawnCounter,
             spawnInterval, elapsedFrames, score>>

settingsUI == <<dropdownOpen, selectedScreen, customWidth, customHeight,
                customInput, customInputStr>>

persistence == <<scores, scoreFile>>

\* ------------------------------------------------------- pure functions
\* A faulty overlap test: boxes that touch along an edge overlap.
rectsOverlap_Touching(x1, y1, s1, x2, y2, s2) ==
    x1 <= x2 + s2 /\ x2 <= x1 + s1 /\ y1 <= y2 + s2 /\ y2 <= y1 + s1

rectsOverlap(x1, y1, s1, x2, y2, s2) ==
    x1 < x2 + s2 /\ x2 < x1 + s1 /\ y1 < y2 + s2 /\ y2 < y1 + s1

NewPlayer(x, y) == [X |-> x, Y |-> y, Size |-> PlayerSize]

\* scores.HighScores[name]: a missing key, and any key of a nil map, reads 0.
Lookup(sd, name) ==
    IF ~sd.isNil /\ name \in DOMAIN sd.HighScores THEN sd.HighScores[name] ELSE 0

\* scores.HighScores[name] = v on a non-nil map.
Store(sd, name, v) ==
    [sd EXCEPT !.HighScores =
        [n \in DOMAIN sd.HighScores \cup {name} |->
            IF n = name THEN v ELSE sd.HighScores[n]]]

EmptyTable == [n \in {} |-> 0]

\* The file as json.Decoder sees it: absent, not a JSON value, the record
\* {"high_scores": null}, or a record holding a table.  Also: a file of no
\* bytes, and a damaged file, which is not a well-formed record but from
\* which Decode stores the entries t all the same (a record in which one
\* score among others is not a number: Decode skips it, goes on and returns
\* an UnmarshalTypeError; or a record followed by garbage, which Decode,
\* reading one value from the stream, never looks at).
EmptyFile == [kind |-> "empty", table |-> EmptyTable]
DamagedFile(t) == [kind |-> "damaged", table |-> t]
MissingFile == [kind |-> "missing", table |-> EmptyTable]
MalformedFile == [kind |-> "malformed", table |-> EmptyTable]
NullFile == [kind |-> "null", table |-> EmptyTable]
TableFile(t) == [kind |-> "ok", table |-> t]

\* loadScores: the map is made first; Decode then replaces it by the file's
\* table, sets it to nil for a JSON null, and leaves it alone on an error.
loadScores(file) ==
    CASE file.kind = "ok" -> [isNil |-> FALSE, HighScores |-> file.table]
      [] file.kind = "damaged" -> [isNil |-> FALSE, HighScores |-> file.table]
      [] file.kind = "null" -> [isNil |-> TRUE, HighScores |-> EmptyTable]
      [] OTHER -> [isNil |-> FALSE, HighScores |-> EmptyTable]

\* saveScores: os.Create failing leaves the file as it was; otherwise the
\* whole record is encoded over it (a nil map encodes as null).
saveScores(file, sd, created) ==
    IF ~created THEN file
    ELSE IF sd.isNil THEN NullFile
    ELSE TableFile(sd.HighScores)

\* ---------------------------------------------- the steps of a playing tick
\* A faulty movement step: the far-edge clamp forgets the player's size.
MovePlayer_NoSize(p, held) ==
    LET y1 == IF "W" \in held THEN p.Y - speed ELSE p.Y
        y2 == IF "S" \in held THEN y1 + speed ELSE y1
        x1 == IF "A" \in held THEN p.X - speed ELSE p.X
        x2 == IF "D" \in held THEN x1 + speed ELSE x1
        x3 == IF x2 < 0 THEN 0 ELSE x2
        y3 == IF y2 < 0 THEN 0 ELSE y2
        x4 == IF x3 > screenWidth THEN screenWidth ELSE x3
        y4 == IF y3 > screenHeight THEN screenHeight ELSE y3
    IN  [p EXCEPT !.X = x4, !.Y = y4]

\* Player movement: each held direction moves by speed, then the clamp.
\* held is the set of held directions ("W" stands for W or ArrowUp, ...).
MovePlayer(p, held) ==
    LET y1 == IF "W" \in held THEN p.Y - speed ELSE p.Y
        y2 == IF "S" \in held THEN y1 + speed ELSE y1
        x1 == IF "A" \in held THEN p.X - speed ELSE p.X
        x2 == IF "D" \in held THEN x1 + speed ELSE x1
        x3 == IF x2 < 0 THEN 0 ELSE x2
        y3 == IF y2 < 0 THEN 0 ELSE y2
        x4 == IF x3 > screenWidth - p.Size THEN screenWidth - p.Size ELSE x3
        y4 == IF y3 > screenHeight - p.Size THEN screenHeight - p.Size ELSE y3
    IN  [p EXCEPT !.X = x4, !.Y = y4]

\* A faulty shot: the bullet starts at the player's top edge.
NewBullet_Top(p) ==
    [X |-> p.X + p.Size \div 2 - 3, Y |-> p.Y,
     SpeedY |-> BulletSpeedY, Size |-> BulletSize,
     Y0 |-> p.Y, Age |-> 0]

\* The Bullet a click creates.  Y0 (the y it was created at) and Age (the
\* number of times it has moved) are history fields, not fields of the struct.
NewBullet(p) ==
    [X |-> p.X + p.Size \div 2 - 3, Y |-> p.Y + p.Size,
     SpeedY |-> BulletSpeedY, Size |-> BulletSize,
     Y0 |-> p.Y + p.Size, Age |-> 0]

Shoot(bs, p, fire) == IF fire THEN Append(bs, NewBullet(p)) ELSE bs

\* A faulty ramp: no floor.
Ramp_NoFloor(interval, frames) ==
    IF frames % RampPeriod = 0 THEN interval - RampStep ELSE interval

\* A faulty ramp: the step falls one tick after each multiple of the period.
Ramp_Late(interval, frames) ==
    IF frames % RampPeriod = 1 /\ frames > 1 /\ interval > MinInterval
    THEN IF interval - RampStep < MinInterval THEN MinInterval
         ELSE interval - RampStep
    ELSE interval

\* The difficulty ramp, with frames the counter already incremented.
Ramp(interval, frames) ==
    IF frames % RampPeriod = 0 /\ interval > MinInterval
    THEN IF interval - RampStep < MinInterval THEN MinInterval
         ELSE interval - RampStep
    ELSE interval

numEnemies_One(interval) == 1

numEnemies(interval) == 1 + (BatchBase - interval) \div BatchDivisor

\* How many enemies this tick spawns, from the counter before its increment
\* and the interval after the ramp.
BatchSize(counter, interval) ==
    IF counter + 1 >= interval THEN numEnemies(interval) ELSE 0

\* rx is the value of rand.Intn(screenWidth-64), rc that of rand.Intn(60).
NewEnemy(rx, rc) ==
    [X |-> SpawnMargin + rx, Y |-> screenHeight, Size |-> EnemySize,
     SpeedY |-> EnemySpeedY, Cooldown |-> SpawnCooldownBase + rc, Dead |-> FALSE]

\* A faulty enemy spawning: the counter is not reset with the batch.
SpawnEnemies_NoReset(es, counter, interval, sx, sc) ==
    IF counter + 1 >= interval
    THEN [counter |-> counter + 1,
          enemies |-> es \o [i \in 1..numEnemies(interval) |-> NewEnemy(sx[i], sc[i])]]
    ELSE [counter |-> counter + 1, enemies |-> es]

\* Enemy spawning: the counter after the tick and the list with the batch.
SpawnEnemies(es, counter, interval, sx, sc) ==
    IF counter + 1 >= interval
    THEN [counter |-> 0,
          enemies |-> es \o [i \in 1..numEnemies(interval) |-> NewEnemy(sx[i], sc[i])]]
    ELSE [counter |-> counter + 1, enemies |-> es]

\* The EnemyBullet enemy e fires at player p (fixed point, see the head).
\* Age (the number of moves so far) is history, not a field of the struct.
AimedBullet(e, p) ==
    LET dx == (p.X + p.Size \div 2) - (e.X + e.Size \div 2)
        dy == (p.Y + p.Size \div 2) - (e.Y + e.Size \div 2)
        dist == dx * dx + dy * dy
        length == ISqrt(dist * Scale * Scale)
    IN  [X |-> (e.X + e.Size \div 2 - 3) * Scale,
         Y |-> (e.Y + e.Size \div 2 - 3) * Scale,
         SpeedX |-> Sign(dx) * ((Abs(dx) * EnemyBulletSpeed * Scale * Scale) \div length),
         SpeedY |-> Sign(dy) * ((Abs(dy) * EnemyBulletSpeed * Scale * Scale) \div length),
         Size |-> EnemyBulletSize, Age |-> 0]

SquaredDistance(e, p) ==
    LET dx == (p.X + p.Size \div 2) - (e.X + e.Size \div 2)
        dy == (p.Y + p.Size \div 2) - (e.Y + e.Size \div 2)
    IN  dx * dx + dy * dy

\* One pass of the enemy loop over e: moved, kept unless above the top,
\* cooldown decremented, and fired when the cooldown ran out.  rf is the
\* value of rand.Intn(60) drawn when it fires.
\* A faulty enemy step: the cooldown is not reset after the shot.
EnemyStep_NoReset(e, p, rf) ==
    LET m == [e EXCEPT !.Y = e.Y + e.SpeedY]
        gone == m.Y + m.Size < 0
        c == [m EXCEPT !.Cooldown = m.Cooldown - 1]
        fires == ~gone /\ c.Cooldown <= 0 /\ SquaredDistance(c, p) > 0
    IN  [kept |-> ~gone,
         fires |-> fires,
         e |-> IF gone THEN m ELSE c,
         eb |-> IF fires THEN <<AimedBullet(c, p)>> ELSE <<>>]

\* A faulty enemy step: the enemy goes once its top edge is above the arena.
EnemyStep_TopEdge(e, p, rf) ==
    LET m == [e EXCEPT !.Y = e.Y + e.SpeedY]
        gone == m.Y < 0
        c == [m EXCEPT !.Cooldown = m.Cooldown - 1]
        fires == ~gone /\ c.Cooldown <= 0 /\ SquaredDistance(c, p) > 0
    IN  [kept |-> ~gone,
         fires |-> fires,
         e |-> IF gone THEN m
               ELSE IF fires THEN [c EXCEPT !.Cooldown = FireCooldownBase + rf]
               ELSE c,
         eb |-> IF fires THEN <<AimedBullet(c, p)>> ELSE <<>>]

EnemyStep(e, p, rf) ==
    LET m == [e EXCEPT !.Y = e.Y + e.SpeedY]
        gone == m.Y + m.Size < 0
        c == [m EXCEPT !.Cooldown = m.Cooldown - 1]
        fires == ~gone /\ c.Cooldown <= 0 /\ SquaredDistance(c, p) > 0
    IN  [kept |-> ~gone,
         fires |-> fires,
         e |-> IF gone THEN m
               ELSE IF fires THEN [c EXCEPT !.Cooldown = FireCooldownBase + rf]
               ELSE c,
         eb |-> IF fires THEN <<AimedBullet(c, p)>> ELSE <<>>]

RECURSIVE Flatten(_)
Flatten(ss) == IF ss = <<>> THEN <<>> ELSE Head(ss) \o Flatten(Tail(ss))

\* Enemy movement and shooting: the new enemy list and the bullets fired,
\* in the order of the loop.  fc[i] is the draw of the i-th enemy.
EnemiesUpdate(es, p, fc) ==
    LET steps == [i \in 1..Len(es) |-> EnemyStep(es[i], p, fc[i])]
        IsKept(r) == r.kept
        TheEnemy(r) == r.e
        TheBullet(r) == r.eb
    IN  [enemies |-> Map(TheEnemy, SelectSeq(steps, IsKept)),
         fired |-> Flatten(Map(TheBullet, steps))]

\* A faulty enemy bullets movement: kept only while the whole box is inside.
EnemyBulletsMove_Within(ebs) ==
    LET Moved(eb) == [eb EXCEPT !.X = eb.X + eb.SpeedX, !.Y = eb.Y + eb.SpeedY,
                                    !.Age = eb.Age + 1]
        Active(eb) == /\ eb.X >= 0
                      /\ eb.X + eb.Size * Scale <= screenWidth * Scale
                      /\ eb.Y >= 0
                      /\ eb.Y + eb.Size * Scale <= screenHeight * Scale
    IN  SelectSeq(Map(Moved, ebs), Active)

\* Enemy bullets movement: moved, kept while the box meets the arena.
EnemyBulletsMove(ebs) ==
    LET Moved(eb) == [eb EXCEPT !.X = eb.X + eb.SpeedX, !.Y = eb.Y + eb.SpeedY,
                                    !.Age = eb.Age + 1]
        Active(eb) == /\ eb.X + eb.Size * Scale > 0
                      /\ eb.X < screenWidth * Scale
                      /\ eb.Y + eb.Size * Scale > 0
                      /\ eb.Y < screenHeight * Scale
    IN  SelectSeq(Map(Moved, ebs), Active)

\* Player bullets movement: moved, kept while b.Y + b.Size > 0.
BulletsMove(bs) ==
    LET Moved(b) == [b EXCEPT !.Y = b.Y + b.SpeedY, !.Age = b.Age + 1]
        OnScreen(b) == b.Y + b.Size > 0
    IN  SelectSeq(Map(Moved, bs), OnScreen)

\* The enemy the bullet b marks dead: the first one in the list that is not
\* yet dead and overlaps it (0: none).
FirstHit(b, es, dead) ==
    LET c == {j \in 1..Len(es) :
                 /\ j \notin dead
                 /\ ~es[j].Dead
                 /\ rectsOverlap(b.X, b.Y, b.Size, es[j].X, es[j].Y, es[j].Size)}
    IN  IF c = {} THEN 0 ELSE CHOOSE j \in c : \A k \in c : j <= k

RECURSIVE BulletLoop_NoBreak(_, _, _, _, _)
\* A faulty bullet loop: the inner loop does not break, so a bullet marks
\* every enemy it overlaps.
BulletLoop_NoBreak(bs, es, i, dead, hit) ==
    IF i > Len(bs) THEN [dead |-> dead, hit |-> hit]
    ELSE LET c == {j \in 1..Len(es) :
                      /\ j \notin dead
                      /\ ~es[j].Dead
                      /\ rectsOverlap(bs[i].X, bs[i].Y, bs[i].Size,
                                      es[j].X, es[j].Y, es[j].Size)}
         IN  IF c = {} THEN BulletLoop_NoBreak(bs, es, i + 1, dead, hit)
             ELSE BulletLoop_NoBreak(bs, es, i + 1, dead \cup c, hit \cup {i})

RECURSIVE BulletLoop(_, _, _, _, _)
\* The bullet loop from bullet i on: the indices of the enemies marked dead
\* and of the bullets that hit.
BulletLoop(bs, es, i, dead, hit) ==
    IF i > Len(bs) THEN [dead |-> dead, hit |-> hit]
    ELSE LET j == FirstHit(bs[i], es, dead)
         IN  IF j = 0 THEN BulletLoop(bs, es, i + 1, dead, hit)
             ELSE BulletLoop(bs, es, i + 1, dead \cup {j}, hit \cup {i})

\* The elements of s whose index is not in out, in order.
Without(s, out) ==
    LET tagged == [i \in 1..Len(s) |-> [v |-> s[i], out |-> i \in out]]
        Stays(t) == ~t.out
        Value(t) == t.v
    IN  Map(Value, SelectSeq(tagged, Stays))

\* The list es with the enemies at the indices dead marked dead.
MarkDead(es, dead) ==
    [j \in 1..Len(es) |-> [es[j] EXCEPT !.Dead = es[j].Dead \/ j \in dead]]

\* A faulty collision step: the enemies marked dead stay in the list.
BulletVsEnemy_KeepDead(bs, es) ==
    LET r == BulletLoop(bs, es, 1, {}, {})
    IN  [bullets |-> Without(bs, r.hit),
         enemies |-> MarkDead(es, r.dead),
         kills |-> Cardinality(r.hit),
         dead |-> r.dead,
         hit |-> r.hit]

\* Bullet vs enemy collision and the removal of the dead enemies.
BulletVsEnemy(bs, es) ==
    LET r == BulletLoop(bs, es, 1, {}, {})
        Alive(e) == ~e.Dead
    IN  [bullets |-> Without(bs, r.hit),
         enemies |-> SelectSeq(MarkDead(es, r.dead), Alive),
         kills |-> Cardinality(r.hit),
         dead |-> r.dead,
         hit |-> r.hit]

\* Enemy bullet vs player: whether one hit, and the bullets that did not.
EnemyBulletVsPlayer(ebs, p) ==
    LET Hits(eb) == rectsOverlap(eb.X, eb.Y, eb.Size * Scale,
                                 p.X * Scale, p.Y * Scale, p.Size * Scale)
        Misses(eb) == ~Hits(eb)
    IN  [playerHit |-> \E i \in 1..Len(ebs) : Hits(ebs[i]),
         enemyBullets |-> SelectSeq(ebs, Misses)]

\* Player vs enemy: whether an enemy of the list overlaps the player.
PlayerVsEnemy(es, p) ==
    \E i \in 1..Len(es) :
        rectsOverlap(p.X, p.Y, p.Size, es[i].X, es[i].Y, es[i].Size)

\* Which death blocks of Update run: the enemy-bullet block returns, so the
\* enemy block runs only when no enemy bullet hit.
DeathBlocks(playerHit, enemyHit) ==
    IF playerHit THEN <<"bullet">>
    ELSE IF enemyHit THEN <<"enemy">>
    ELSE <<>>

\* A faulty death block: a failed write of the score file is fatal.
DeathBlock_FatalWrite(st, name, sc, created) ==
    IF st.panicked THEN st
    ELSE LET snap == [st EXCEPT !.deathScore = sc, !.handled = st.handled + 1]
         IN  IF name # <<>> /\ sc > Lookup(st.scores, name)
             THEN IF st.scores.isNil \/ ~created
                  THEN [snap EXCEPT !.panicked = TRUE,
                                    !.saved = IF st.scores.isNil THEN st.saved
                                              ELSE st.saved + 1]
                  ELSE LET sd == Store(st.scores, name, sc)
                       IN  [snap EXCEPT !.scores = sd,
                                        !.file = saveScores(st.file, sd, created),
                                        !.saved = st.saved + 1,
                                        !.state = "dead"]
             ELSE [snap EXCEPT !.state = "dead"]

\* One run of a death block on st = [scores, file, deathScore, state,
\* panicked, handled, saved]: the snapshot, the record test, the store (a
\* panic on a nil map), the save, the mode.
DeathBlock(st, name, sc, created) ==
    IF st.panicked THEN st
    ELSE LET snap == [st EXCEPT !.deathScore = sc, !.handled = st.handled + 1]
         IN  IF name # <<>> /\ sc > Lookup(st.scores, name)
             THEN IF st.scores.isNil
                  THEN [snap EXCEPT !.panicked = TRUE]
                  ELSE LET sd == Store(st.scores, name, sc)
                       IN  [snap EXCEPT !.scores = sd,
                                        !.file = saveScores(st.file, sd, created),
                                        !.saved = st.saved + 1,
                                        !.state = "dead"]
             ELSE [snap EXCEPT !.state = "dead"]

RECURSIVE RunDeathBlocks(_, _, _, _, _)
RunDeathBlocks(blocks, st, name, sc, created) ==
    IF blocks = <<>> THEN st
    ELSE RunDeathBlocks(Tail(blocks), DeathBlock(st, name, sc, created),
                        name, sc, created)

\* ----------------------------------------------------------- text input
Lower == {"a", "b", "c", "d", "e", "f", "g", "h", "i", "j", "k", "l", "m",
          "n", "o", "p", "q", "r", "s", "t", "u", "v", "w", "x", "y", "z"}
Upper == {"A", "B", "C", "D", "E", "F", "G", "H", "I", "J", "K", "L", "M",
          "N", "O", "P", "Q", "R", "S", "T", "U", "V", "W", "X", "Y", "Z"}
Digits == <<"0", "1", "2", "3", "4", "5", "6", "7", "8", "9">>
DigitSet == {Digits[i] : i \in 1..10}

\* The test of the menu's input loop on one typed character.
IsNameChar(c) == c = "_" \/ c = "-" \/ c \in Lower \/ c \in Upper \/ c \in DigitSet

RECURSIVE TypeName(_, _)
\* The menu's input loop: each typed character is appended while the buffer
\* is shorter than 12 and the character is allowed.
TypeName(buf, typed) ==
    IF typed = <<>> THEN buf
    ELSE TypeName(IF Len(buf) < MaxNameLen /\ IsNameChar(Head(typed))
                  THEN Append(buf, Head(typed)) ELSE buf,
                  Tail(typed))

RECURSIVE TypeCustom(_, _)
\* The custom-size input loop: digits and commas are appended.
TypeCustom(buf, typed) ==
    IF typed = <<>> THEN buf
    ELSE TypeCustom(IF Head(typed) \in DigitSet \/ Head(typed) = ","
                    THEN Append(buf, Head(typed)) ELSE buf,
                    Tail(typed))

\* buf[:len(buf)-1] when Backspace was just pressed and buf is not empty.
Backspace(buf, pressed) ==
    IF pressed /\ Len(buf) > 0 THEN SubSeq(buf, 1, Len(buf) - 1) ELSE buf

RECURSIVE Split(_, _)
\* strings.Split(s, sep).
Split(s, sep) ==
    IF \A i \in 1..Len(s) : s[i] # sep THEN <<s>>
    ELSE LET k == CHOOSE i \in 1..Len(s) :
                      s[i] = sep /\ \A j \in 1..(i - 1) : s[j] # sep
         IN  <<SubSeq(s, 1, k - 1)>> \o Split(SubSeq(s, k + 1, Len(s)), sep)

DigitValue(c) == (CHOOSE i \in 1..10 : Digits[i] = c) - 1

RECURSIVE Number(_)
Number(ds) ==
    IF ds = <<>> THEN 0
    ELSE 10 * Number(SubSeq(ds, 1, Len(ds) - 1)) + DigitValue(ds[Len(ds)])

\* strconv.Atoi on a string of digits: an error for the empty string.
Atoi(ds) ==
    IF ds # <<>> /\ \A i \in 1..Len(ds) : ds[i] \in DigitSet
    THEN [ok |-> TRUE, n |-> Number(ds)]
    ELSE [ok |-> FALSE, n |-> 0]

\* ---------------------------------------------------- the leaderboard
RECURSIVE Itoa(_)
\* fmt.Sprintf("%d", n) for n >= 0.
Itoa(n) ==
    IF n < 10 THEN <<Digits[n + 1]>>
    ELSE Append(Itoa(n \div 10), Digits[(n % 10) + 1])

\* The orders in which the pairs of the table can stand after the range
\* over the map (any order) and sort.Slice by decreasing score (not stable):
\* every order of the names in which no score is below a later one.
SortedNames(sd) ==
    LET names == IF sd.isNil THEN {} ELSE DOMAIN sd.HighScores
        k == Cardinality(names)
    IN  {p \in [1..k -> names] :
            /\ \A i, j \in 1..k : p[i] = p[j] => i = j
            /\ \A i, j \in 1..k : i < j => sd.HighScores[p[i]] >= sd.HighScores[p[j]]}

\* A faulty leaderboard: sorted by increasing score.
getTopScores_Ascending(sd, n) ==
    LET names == IF sd.isNil THEN {} ELSE DOMAIN sd.HighScores
        k == Cardinality(names)
        m == IF n < k THEN (IF n < 0 THEN 0 ELSE n) ELSE k
        up == {p \in [1..k -> names] :
                  /\ \A i, j \in 1..k : p[i] = p[j] => i = j
                  /\ \A i, j \in 1..k :
                         i < j => sd.HighScores[p[i]] <= sd.HighScores[p[j]]}
    IN  {[i \in 1..m |-> <<p[i], Itoa(sd.HighScores[p[i]])>>] : p \in up}

\* getTopScores(n) on the table sd: the results it can return, each a list
\* of [2]string{name, score in decimal}.
getTopScores(sd, n) ==
    LET k == IF sd.isNil THEN 0 ELSE Cardinality(DOMAIN sd.HighScores)
        m == IF n < k THEN (IF n < 0 THEN 0 ELSE n) ELSE k
    IN  {[i \in 1..m |-> <<p[i], Itoa(sd.HighScores[p[i]])>>] :
            p \in SortedNames(sd)}

\* ------------------------------------------------------------- geometry
\* A mouse click of this tick: none, or the cursor position.
NoClick == [pressed |-> FALSE, x |-> 0, y |-> 0]
ClickAt(x, y) == [pressed |-> TRUE, x |-> x, y |-> y]

\* xf >= bx && xf <= bx+bw && yf >= by && yf <= by+bh
Inside(c, bx, by, bw, bh) ==
    c.x >= bx /\ c.x <= bx + bw /\ c.y >= by /\ c.y <= by + bh

centerX == screenWidth \div 2
btnW == 120
btnH == 40
btnX == centerX - btnW \div 2
ddW == 200
ddH == 32
ddX == centerX - 100
settingsCardH == 300
menuCardH == 420
deadCardH == 300
settingsCardY == screenHeight \div 2 - settingsCardH \div 2
ddY == settingsCardY + 100
settingsBackY == settingsCardY + settingsCardH - btnH - 24
menuBtnY == (screenHeight \div 2 - menuCardH \div 2) + menuCardH - btnH - 24
deadMenuBtnY == (screenHeight \div 2 - deadCardH \div 2) + deadCardH - btnH * 3 - 24 - 16
playAgainBtnY == deadMenuBtnY + btnH + 16
deadSettingsBtnY == playAgainBtnY + btnH + 16

\* The first dropdown option the click is on (4: none).
ClickedOption(c) ==
    LET on == {i \in 0..3 : Inside(c, ddX, ddY + ddH + i * ddH, ddW, ddH)}
    IN  IF on = {} THEN 4 ELSE CHOOSE i \in on : \A j \in on : i <= j

\* ---------------------------------------------------------------- Reset
\* A faulty Reset: the score is kept.
Reset_KeepScore ==
    /\ player' = NewPlayer(screenWidth \div 2, screenHeight \div 2)
    /\ bullets' = <<>>
    /\ enemies' = <<>>
    /\ enemyBullets' = <<>>
    /\ spawnCounter' = 0
    /\ spawnInterval' = StartInterval
    /\ elapsedFrames' = 0
    /\ UNCHANGED score

ResetPlayer == NewPlayer(screenWidth \div 2, screenHeight \div 2)

Reset ==
    /\ player' = ResetPlayer
    /\ bullets' = <<>>
    /\ enemies' = <<>>
    /\ enemyBullets' = <<>>
    /\ spawnCounter' = 0
    /\ spawnInterval' = StartInterval
    /\ elapsedFrames' = 0
    /\ score' = 0

\* ----------------------------------------------------------- the history
Obs(mode) ==
    [mode |-> mode,
     scoreBefore |-> score,
     stored |-> Lookup(scores, username), before |-> scores,
     fire |-> FALSE, shot |-> <<>>, enter |-> FALSE, created |-> FALSE,
     text |-> <<>>,
     spawned |-> <<>>, moved |-> <<>>, fired |-> <<>>, flying |-> <<>>,
     counter |-> spawnCounter, interval |-> spawnInterval,
     passBullets |-> <<>>, passEnemies |-> <<>>, dead |-> {}, hit |-> {},
     atCollision |-> <<>>, enemiesAtCollision |-> <<>>,
     handled |-> 0, saved |-> 0]

\* ------------------------------------------------------------------ Init
\* main: loadScores, then the Game literal.
NoCall == [fn |-> "none"]

\* The program's state after main has loaded the scores and built the Game.
Start(Files) ==
    /\ \E f \in Files : scoreFile = f /\ scores = loadScores(f)
    /\ keys = {}
    /\ gameState = "menu"
    /\ lastGameState = ""
    /\ player = NewPlayer(screenWidth \div 2, screenHeight \div 2)
    /\ bullets = <<>>
    /\ enemies = <<>>
    /\ enemyBullets = <<>>
    /\ spawnCounter = 0
    /\ spawnInterval = StartInterval
    /\ elapsedFrames = 0
    /\ score = 0
    /\ deathScore = 0
    /\ username = <<>>
    /\ usernameInput = <<>>
    /\ dropdownOpen = FALSE
    /\ selectedScreen = 0
    /\ customWidth = 0
    /\ customHeight = 0
    /\ customInput = FALSE
    /\ customInputStr = <<>>
    /\ panicked = FALSE
    /\ obs = [mode |-> "", scoreBefore |-> 0, stored |-> 0, before |-> scores,
              fire |-> FALSE, shot |-> <<>>, enter |-> FALSE, created |-> FALSE,
              text |-> <<>>,
              spawned |-> <<>>, moved |-> <<>>, fired |-> <<>>, flying |-> <<>>,
     counter |-> spawnCounter, interval |-> spawnInterval,
              passBullets |-> <<>>, passEnemies |-> <<>>, dead |-> {}, hit |-> {},
              atCollision |-> <<>>, enemiesAtCollision |-> <<>>,
              handled |-> 0, saved |-> 0]

InitWith(Files) == call = NoCall /\ Start(Files)

\* -------------------------------------------------- Update, settings mode
\* The custom-size dialog: typing, Backspace, Enter (parse and accept), Escape.
CustomInputStep(typed, backspace, enter, escape) ==
    LET str == Backspace(TypeCustom(customInputStr, typed), backspace)
        parts == Split(str, ",")
        w == IF Len(parts) = 2 THEN Atoi(parts[1]) ELSE [ok |-> FALSE, n |-> 0]
        h == IF Len(parts) = 2 THEN Atoi(parts[2]) ELSE [ok |-> FALSE, n |-> 0]
        accepted == enter /\ Len(parts) = 2 /\ w.ok /\ h.ok
                    /\ w.n > MinCustom /\ h.n > MinCustom
    IN  /\ customWidth' = IF accepted THEN w.n ELSE customWidth
        /\ customHeight' = IF accepted THEN h.n ELSE customHeight
        /\ selectedScreen' = IF accepted THEN 3 ELSE selectedScreen
        /\ customInput' = ~(accepted \/ escape)
        /\ customInputStr' = IF accepted \/ escape THEN <<>> ELSE str
        /\ UNCHANGED <<dropdownOpen, gameState>>

\* A faulty Back button: always to the menu.
BackTarget_Menu(last) == "menu"

\* Where the Back button leads.
BackTarget(last) == IF last # "" THEN last ELSE "menu"

\* A click on the settings page: the dropdown, an option of the open
\* dropdown, and (tested on its own, after them) the Back button.
SettingsClick(click) ==
    LET onDropdown == Inside(click, ddX, ddY, ddW, ddH)
        option == IF ~onDropdown /\ dropdownOpen THEN ClickedOption(click) ELSE 4
        back == Inside(click, btnX, settingsBackY, btnW, btnH)
    IN  /\ dropdownOpen' = IF onDropdown THEN ~dropdownOpen
                           ELSE IF option < 4 THEN FALSE
                           ELSE dropdownOpen
        /\ customInput' = IF option = 3 THEN TRUE ELSE customInput
        /\ customInputStr' = IF option = 3 THEN <<>> ELSE customInputStr
        /\ selectedScreen' = IF option < 3 THEN option ELSE selectedScreen
        /\ gameState' = IF back THEN BackTarget(lastGameState) ELSE gameState
        /\ UNCHANGED <<customWidth, customHeight>>

\* A faulty settings page: the spawn counter runs while it is shown.
UpdateSettings_Counting(typed, backspace, enter, escape, click) ==
    /\ gameState = "settings"
    /\ ~panicked
    /\ IF customInput THEN CustomInputStep(typed, backspace, enter, escape)
       ELSE IF click.pressed THEN SettingsClick(click)
       ELSE UNCHANGED <<settingsUI, gameState>>
    /\ obs' = [Obs("settings") EXCEPT
                  !.enter = enter,
                  !.text = Backspace(TypeCustom(customInputStr, typed), backspace)]
    /\ keys' = {}
    /\ spawnCounter' = spawnCounter + 1
    /\ UNCHANGED <<call, lastGameState, player, bullets, enemies, enemyBullets,
                   spawnInterval, elapsedFrames, score, deathScore, username,
                   usernameInput, persistence, panicked>>

UpdateSettings(typed, backspace, enter, escape, click) ==
    /\ gameState = "settings"
    /\ ~panicked
    /\ IF customInput THEN CustomInputStep(typed, backspace, enter, escape)
       ELSE IF click.pressed THEN SettingsClick(click)
       ELSE UNCHANGED <<settingsUI, gameState>>
    /\ obs' = [Obs("settings") EXCEPT
                  !.enter = enter,
                  !.text = Backspace(TypeCustom(customInputStr, typed), backspace)]
    /\ keys' = {}
    /\ UNCHANGED <<call, lastGameState, session, deathScore, username, usernameInput,
                   persistence, panicked>>

\* ------------------------------------------------------ Update, menu mode
\* A faulty menu: Enter starts a session whatever the buffer holds.
UpdateMenu_AnyName(typed, backspace, enter, click) ==
    LET buf == Backspace(TypeName(usernameInput, typed), backspace)
        toSettings == click.pressed /\ Inside(click, btnX, menuBtnY, btnW, btnH)
    IN  /\ gameState = "menu"
        /\ ~panicked
        /\ usernameInput' = buf
        /\ username' = IF enter THEN buf ELSE username
        /\ IF enter THEN Reset ELSE UNCHANGED session
        /\ lastGameState' = IF toSettings THEN "menu" ELSE lastGameState
        /\ gameState' = IF toSettings THEN "settings"
                        ELSE IF enter THEN "playing"
                        ELSE "menu"
        /\ obs' = [Obs("menu") EXCEPT !.enter = enter]
        /\ keys' = {}
        /\ UNCHANGED <<call, deathScore, settingsUI, persistence, panicked>>

UpdateMenu(typed, backspace, enter, click) ==
    LET buf == Backspace(TypeName(usernameInput, typed), backspace)
        start == enter /\ Len(buf) > 0
        toSettings == click.pressed /\ Inside(click, btnX, menuBtnY, btnW, btnH)
    IN  /\ gameState = "menu"
        /\ ~panicked
        /\ usernameInput' = buf
        /\ username' = IF start THEN buf ELSE username
        /\ IF start THEN Reset ELSE UNCHANGED session
        /\ lastGameState' = IF toSettings THEN "menu" ELSE lastGameState
        /\ gameState' = IF toSettings THEN "settings"
                        ELSE IF start THEN "playing"
                        ELSE "menu"
        /\ obs' = [Obs("menu") EXCEPT !.enter = enter]
        /\ keys' = {}
        /\ UNCHANGED <<call, deathScore, settingsUI, persistence, panicked>>

\* ------------------------------------------------------ Update, dead mode
\* The three buttons, then Enter, then Escape: each later test overrides.
UpdateDead(enter, escape, click) ==
    LET onMenu == click.pressed /\ Inside(click, btnX, deadMenuBtnY, btnW, btnH)
        onAgain == click.pressed /\ Inside(click, btnX, playAgainBtnY, btnW, btnH)
        onSettings == click.pressed /\ Inside(click, btnX, deadSettingsBtnY, btnW, btnH)
        s1 == IF onMenu THEN "menu" ELSE "dead"
        s2 == IF onAgain THEN "playing" ELSE s1
        s3 == IF onSettings THEN "settings" ELSE s2
        s4 == IF enter THEN "playing" ELSE s3
        s5 == IF escape THEN "menu" ELSE s4
    IN  /\ gameState = "dead"
        /\ ~panicked
        /\ IF onMenu \/ onAgain \/ enter \/ escape THEN Reset ELSE UNCHANGED session
        /\ lastGameState' = IF onSettings THEN "dead" ELSE lastGameState
        /\ gameState' = s5
        /\ obs' = [Obs("dead") EXCEPT !.enter = enter]
        /\ keys' = {}
        /\ UNCHANGED <<call, deathScore, username, usernameInput, settingsUI,
                       persistence, panicked>>

\* --------------------------------------------------- Update, playing mode
\* held: the held directions; fire: the left button was just pressed;
\* sx, sc: the draws of the enemies spawned; fc: the draw of each enemy's
\* next cooldown; created: whether os.Create succeeds if the score is saved.
UpdatePlaying(held, fire, sx, sc, fc, created) ==
    LET frames == elapsedFrames + 1
        p == MovePlayer(player, held)
        shot == Shoot(bullets, p, fire)
        interval == Ramp(spawnInterval, frames)
        sp == SpawnEnemies(enemies, spawnCounter, interval, sx, sc)
        eu == EnemiesUpdate(sp.enemies, p, fc)
        ebs == EnemyBulletsMove(enemyBullets \o eu.fired)
        moved == BulletsMove(shot)
        bv == BulletVsEnemy(moved, eu.enemies)
        newScore == score + bv.kills
        ep == EnemyBulletVsPlayer(ebs, p)
        blocks == DeathBlocks(ep.playerHit, PlayerVsEnemy(bv.enemies, p))
        st == RunDeathBlocks(blocks,
                  [scores |-> scores, file |-> scoreFile, deathScore |-> deathScore,
                   state |-> "playing", panicked |-> FALSE, handled |-> 0, saved |-> 0],
                  username, newScore, created)
    IN  /\ gameState = "playing"
        /\ ~panicked
        /\ keys' = held
        /\ elapsedFrames' = frames
        /\ player' = p
        /\ spawnInterval' = interval
        /\ spawnCounter' = sp.counter
        /\ enemies' = bv.enemies
        /\ bullets' = bv.bullets
        /\ enemyBullets' = ep.enemyBullets
        /\ score' = newScore
        /\ deathScore' = st.deathScore
        /\ scores' = st.scores
        /\ scoreFile' = st.file
        /\ gameState' = st.state
        /\ panicked' = st.panicked
        /\ obs' = [mode |-> "playing",
                   scoreBefore |-> score,
                   stored |-> Lookup(scores, username), before |-> scores,
                   fire |-> fire, shot |-> shot, enter |-> FALSE, text |-> <<>>,
                   created |-> created /\ st.saved > 0,
                   spawned |-> SubSeq(sp.enemies, Len(enemies) + 1, Len(sp.enemies)),
                   moved |-> sp.enemies,
                   fired |-> eu.fired, flying |-> enemyBullets \o eu.fired,
                   counter |-> spawnCounter, interval |-> spawnInterval,
                   passBullets |-> moved, passEnemies |-> eu.enemies,
                   dead |-> bv.dead, hit |-> bv.hit,
                   atCollision |-> ebs, enemiesAtCollision |-> bv.enemies,
                   handled |-> st.handled, saved |-> st.saved]
        /\ UNCHANGED <<call, lastGameState, username, usernameInput, settingsUI>>

\* ------------------------------------------------------------ the inputs
\* One point on each button, and one on none.
OnMenuSettings == ClickAt(centerX, menuBtnY + 10)
OnDeadMenu == ClickAt(centerX, deadMenuBtnY + 10)
OnPlayAgain == ClickAt(centerX, playAgainBtnY + 10)
OnDeadSettings == ClickAt(centerX, deadSettingsBtnY + 10)
OnBack == ClickAt(centerX, settingsBackY + 30)
OnNothing == ClickAt(1, 1)

Clicks == {NoClick, OnNothing, OnMenuSettings, OnDeadMenu, OnPlayAgain,
           OnDeadSettings, OnBack}

\* What is typed in one tick: nothing, or one character (one of them not
\* allowed in a name), and nothing once MaxTyped characters are in the buffer.
Typed == IF Len(usernameInput) < MaxTyped THEN {<<>>, <<"a">>, <<"!">>}
         ELSE {<<>>}

\* The file at process start.
Files == {MissingFile, NullFile}

Init == InitWith(Files)

Settings ==
    \E backspace, enter, escape \in BOOLEAN, click \in Clicks :
        UpdateSettings(<<>>, backspace, enter, escape, click)

Menu ==
    \E typed \in Typed, backspace, enter \in BOOLEAN, click \in Clicks :
        UpdateMenu(typed, backspace, enter, click)

Dead ==
    \E enter, escape \in BOOLEAN, click \in Clicks :
        UpdateDead(enter, escape, click)

\* A playing tick with the inputs drawn from the given sets.
PlayingWith(KeySets, Fires, RandX, RandCd, RandFire, Writes) ==
    LET n == BatchSize(spawnCounter, Ramp(spawnInterval, elapsedFrames + 1))
    IN  \E held \in KeySets, fire \in Fires, created \in Writes,
           sx \in [1..n -> RandX], sc \in [1..n -> RandCd],
           fc \in [1..(Len(enemies) + n) -> RandFire] :
            UpdatePlaying(held, fire, sx, sc, fc, created)

\* The directions held in this tick: chosen from KeySets in the first tick
\* of a session and held to its end.
Held(KeySets) == IF elapsedFrames = 0 THEN KeySets ELSE {keys}

\* The player clicks only while some enemy on screen has no bullet under way.
Aimed == IF Len(bullets) < Len(enemies) THEN BOOLEAN ELSE {FALSE}

\* Spec: the player stands still or holds S; enemies spawn straight below
\* the start position or to its right, with the shortest cooldowns.
Playing ==
    /\ elapsedFrames < MaxFrames
    /\ PlayingWith(Held({{}, {"S"}}), Aimed, {288, 368}, {0}, {0}, {TRUE})

Next == Settings \/ Menu \/ Dead \/ Playing

Spec == Init /\ [][Next]_vars

\* SpecRamp: one long scripted session.  The player stands still (or holds D
\* and walks away) and clicks in every second tick in which some enemy has
\* no bullet under way; every enemy spawns straight below the start
\* position with the longest cooldowns.
PlayingRamp ==
    /\ elapsedFrames < RampFrames
    /\ PlayingWith(Held({{}, {"D"}}),
                   {elapsedFrames % 2 = 1 /\ Len(bullets) < Len(enemies)},
                   {288}, {59}, {59}, {TRUE})

MenuRamp ==
    \E typed \in Typed, enter \in BOOLEAN : UpdateMenu(typed, FALSE, enter, NoClick)

DeadRamp == \E enter \in BOOLEAN : UpdateDead(enter, FALSE, NoClick)

NextRamp == MenuRamp \/ DeadRamp \/ PlayingRamp

SpecRamp == InitWith({MissingFile}) /\ [][NextRamp]_vars

\* SpecMove: the player holds any set of directions for a whole session and
\* never clicks; every enemy spawns straight below the start position.
PlayingMove ==
    /\ elapsedFrames < MoveFrames
    /\ PlayingWith(Held(SUBSET {"W", "A", "S", "D"}), {FALSE},
                   {288}, {0}, {0}, {TRUE})

NextMove == MenuRamp \/ DeadRamp \/ PlayingMove

SpecMove == InitWith({MissingFile}) /\ [][NextMove]_vars

\* A new run of the program on the score file the last run left: main again.
Restart ==
    /\ scoreFile' = scoreFile
    /\ scores' = loadScores(scoreFile)
    /\ keys' = {}
    /\ gameState' = "menu"
    /\ lastGameState' = ""
    /\ player' = NewPlayer(screenWidth \div 2, screenHeight \div 2)
    /\ bullets' = <<>>
    /\ enemies' = <<>>
    /\ enemyBullets' = <<>>
    /\ spawnCounter' = 0
    /\ spawnInterval' = StartInterval
    /\ elapsedFrames' = 0
    /\ score' = 0
    /\ deathScore' = 0
    /\ username' = <<>>
    /\ usernameInput' = <<>>
    /\ dropdownOpen' = FALSE
    /\ selectedScreen' = 0
    /\ customWidth' = 0
    /\ customHeight' = 0
    /\ customInput' = FALSE
    /\ customInputStr' = <<>>
    /\ panicked' = FALSE
    /\ obs' = [Obs("") EXCEPT !.scoreBefore = 0, !.stored = 0,
                              !.before = loadScores(scoreFile)]
    /\ UNCHANGED call

\* SpecScores: every kind of score file, os.Create failing or not, and the
\* program run again; the player stands still under the enemies.
Alone == [n \in {<<"a">>} |-> 2]
Others == [n \in {<<"b">>} |-> 5]
AllFiles == {MissingFile, EmptyFile, MalformedFile, NullFile,
             DamagedFile(Others), TableFile(Alone), TableFile(Others)}

PlayingScores ==
    /\ elapsedFrames < MaxFrames
    /\ PlayingWith({{}}, Aimed, {288}, {0}, {0}, BOOLEAN)

NextScores == MenuRamp \/ DeadRamp \/ PlayingScores \/ Restart

SpecScores == InitWith(AllFiles) /\ [][NextScores]_vars

\* SpecCustom: the settings page with its dropdown and the custom-size
\* dialog; a whole entry is typed in one call into the empty buffer.
OnDropdown == ClickAt(centerX, ddY + 10)
OnPreset == ClickAt(centerX, ddY + ddH + ddH + 10)
OnCustom == ClickAt(centerX, ddY + ddH + 3 * ddH + 2)

Entries == {<<"1", "0", "0", ",", "1", "0", "0">>,
            <<"1", "0", "1", ",", "1", "0", "1">>,
            <<"1", "0", "0", ",", "1", "0", "1">>,
            <<"9", "9", ",", "6", "4", "0">>,
            <<"6", "4", "0", ",", "x", "4", "8", "0">>,
            <<"1", "0", "1", ",", "1", "0", "1", ",", "1", "0", "1">>,
            <<"1", "0", "1">>,
            <<",">>}

CustomTyped == IF customInput /\ customInputStr = <<>> THEN Entries \cup {<<>>}
               ELSE {<<>>}

MenuCustom == \E click \in {NoClick, OnMenuSettings} :
                  UpdateMenu(<<>>, FALSE, FALSE, click)

SettingsCustom ==
    \E typed \in CustomTyped, backspace, enter, escape \in BOOLEAN,
       click \in {NoClick, OnDropdown, OnPreset, OnCustom, OnBack} :
        UpdateSettings(typed, backspace, enter, escape, click)

NextCustom == MenuCustom \/ SettingsCustom

SpecCustom == InitWith({MissingFile}) /\ [][NextCustom]_vars

\* SpecCalls: rectsOverlap on two boxes, and getTopScores on a loaded table.
Offsets == {-32, -31, -6, 0, 5, 6, 31, 32}
Sizes == {6, 32}
OverlapCalls ==
    {[fn |-> "rectsOverlap", done |-> FALSE, result |-> FALSE,
      x1 |-> 320, y1 |-> 240, s1 |-> s1, x2 |-> 320 + dx, y2 |-> 240 + dy, s2 |-> s2] :
        s1 \in Sizes, s2 \in Sizes, dx \in Offsets, dy \in Offsets}

Players == {<<"a">>, <<"b">>, <<"c">>}
Tables == UNION {[ns -> {1, 2, 12}] : ns \in SUBSET Players}
TopCalls == {[fn |-> "getTopScores", done |-> FALSE, result |-> <<>>, n |-> n] :
                n \in {0, 1, 2, 10}}

InitCalls ==
    \/ call \in OverlapCalls /\ Start({MissingFile})
    \/ call \in TopCalls /\ Start({NullFile} \cup {TableFile(t) : t \in Tables})

CallRectsOverlap ==
    /\ call.fn = "rectsOverlap"
    /\ ~call.done
    /\ call' = [call EXCEPT !.done = TRUE,
                            !.result = rectsOverlap(call.x1, call.y1, call.s1,
                                                    call.x2, call.y2, call.s2)]
    /\ UNCHANGED <<keys, gameState, lastGameState, session, deathScore, username,
                   usernameInput, settingsUI, persistence, panicked, obs>>

\* Draw in menu mode calls getTopScores(10) on the global table.
CallGetTopScores ==
    /\ call.fn = "getTopScores"
    /\ ~call.done
    /\ \E r \in getTopScores(scores, call.n) :
           call' = [call EXCEPT !.done = TRUE, !.result = r]
    /\ UNCHANGED <<keys, gameState, lastGameState, session, deathScore, username,
                   usernameInput, settingsUI, persistence, panicked, obs>>

NextCalls == CallRectsOverlap \/ CallGetTopScores

SpecCalls == InitCalls /\ [][NextCalls]_vars

\* SpecDrift: one session in which no shot is fired and every enemy spawns
\* at the left margin with the longest cooldowns.  The player stands still,
\* or dodges: walks up and down, turning round every TurnEvery ticks.
Weave ==
    IF elapsedFrames = 0 THEN {{}, {"W"}}
    ELSE IF keys = {} THEN {{}}
    ELSE IF (elapsedFrames \div TurnEvery) % 2 = 0 THEN {{"W"}}
    ELSE {{"S"}}

PlayingDrift ==
    /\ elapsedFrames < DriftFrames
    /\ PlayingWith(Weave, {FALSE}, {0}, {59}, {59}, {TRUE})

NextDrift == MenuRamp \/ DeadRamp \/ PlayingDrift

SpecDrift == InitWith({MissingFile}) /\ [][NextDrift]_vars

\* SpecClose: one session in which the player stands still or holds S (and
\* so waits at the bottom edge, where the enemies arrive) and clicks only in
\* a tick in which a batch is due; every enemy spawns straight below the
\* start position with the longest cooldowns.
BatchDue == spawnCounter + 1 >= Ramp(spawnInterval, elapsedFrames + 1)

PlayingClose ==
    /\ elapsedFrames < CloseFrames
    /\ PlayingWith(Held({{}, {"S"}}), IF BatchDue THEN BOOLEAN ELSE {FALSE},
                   {288}, {59}, {59}, {TRUE})

NextClose == MenuRamp \/ DeadRamp \/ PlayingClose

SpecClose == InitWith({MissingFile}) /\ [][NextClose]_vars

\* ============================================================ properties
\* Two boxes of sides s1 and s2 overlap in both axes, strictly.
StrictOverlap(x1, y1, s1, x2, y2, s2) ==
    /\ x1 < x2 + s2 /\ x1 + s1 > x2
    /\ y1 < y2 + s2 /\ y1 + s1 > y2

CeilDiv(a, b) == (a + b - 1) \div b

\* The usernames that can ever be a key of the table.
Names == {username, usernameInput} \cup DOMAIN scores.HighScores
         \cup DOMAIN obs.before.HighScores

\* C1: after the Update call that handles a death of user u with score s,
\* stored(u) is the maximum of s and the value stored before the call; and
\* no call lowers the stored value of any username.
HighScoreIsMax ==
    /\ obs.handled > 0 /\ username # <<>> =>
           Lookup(scores, username) = Max(obs.stored, score)
    /\ \A n \in Names : Lookup(scores, n) >= Lookup(obs.before, n)

\* C2: a playing tick at whose collision phase the player's box strictly
\* overlaps an enemy bullet or an enemy ends in mode dead with the death
\* snapshot equal to the score, the death handled once; any other playing
\* tick ends in mode playing with no death handled.
DeathOnOverlap ==
    obs.mode = "playing" =>
        LET byBullet == \E i \in 1..Len(obs.atCollision) :
                LET eb == obs.atCollision[i]
                IN  StrictOverlap(eb.X, eb.Y, eb.Size * Scale, player.X * Scale,
                                  player.Y * Scale, player.Size * Scale)
            byEnemy == \E j \in 1..Len(obs.enemiesAtCollision) :
                LET e == obs.enemiesAtCollision[j]
                IN  StrictOverlap(player.X, player.Y, player.Size, e.X, e.Y, e.Size)
        IN  IF byBullet \/ byEnemy
            THEN gameState = "dead" /\ deathScore = score /\ obs.handled = 1
            ELSE gameState = "playing" /\ obs.handled = 0

\* The number of ticks C3 gives a bullet created at y = Y0.
Lifetime(b) == CeilDiv(b.Y0 + b.Size, b.SpeedY)

\* C3: the bullets that reach the collision pass of a playing tick are the
\* bullets in the list after the shot that have moved fewer times than
\* ceil((py + size) / v): a bullet leaves the list by the screen test
\* exactly at its ceil((py + size) / v)-th move.
BulletLifetime ==
    obs.mode = "playing" =>
        LET Young(b) == b.Age + 1 < Lifetime(b)
        IN  Len(obs.passBullets) = Len(SelectSeq(obs.shot, Young))

\* The bullets of the list after the shot that this tick created.
Created == {i \in 1..Len(obs.shot) : obs.shot[i].Age = 0}

\* Every bullet of the list after the shot has moved by dy when it reaches
\* the collision pass.
MovedBy(dy) ==
    /\ Len(obs.passBullets) = Len(obs.shot)
    /\ \A i \in 1..Len(obs.shot) : obs.passBullets[i].Y = obs.shot[i].Y + dy

\* The tick created exactly one bullet if a shot was requested and none
\* otherwise, horizontally centred on the player, its y at the player's y
\* plus dy.
CreatedAt(dy) ==
    /\ Cardinality(Created) = IF obs.fire THEN 1 ELSE 0
    /\ \A i \in Created :
           /\ 2 * obs.shot[i].X + obs.shot[i].Size = 2 * player.X + player.Size
           /\ obs.shot[i].Y = player.Y + dy

PlayerInArena ==
    /\ 0 <= player.X /\ player.X <= 640 - player.Size
    /\ 0 <= player.Y /\ player.Y <= 480 - player.Size

\* A tick that pushed against the top-left corner.
PushedIntoCorner ==
    /\ obs.mode = "playing"
    /\ keys = {"W", "A"}
    /\ player.X = 0 /\ player.Y = 0
    /\ elapsedFrames > 80

\* A step that resets the session.
ResetStep ==
    /\ gameState \in {"menu", "dead"}
    /\ elapsedFrames' = 0
    /\ spawnInterval' = 90

\* C6: the spawn interval is never below 10, and no step other than a reset
\* raises it.
IntervalNeverRises ==
    /\ [](spawnInterval >= 10)
    /\ [][spawnInterval' <= spawnInterval \/ ResetStep]_vars

\* A ramp tick at the floor.
RampAtFloor ==
    /\ obs.mode = "playing"
    /\ spawnInterval = 10
    /\ elapsedFrames > 0 /\ elapsedFrames % 120 = 0
    /\ elapsedFrames > 120 * 16

\* C7: after k playing ticks since the last reset the spawn interval is
\* max(10, 90 - 5 * floor(k / 120)).
IntervalFormula ==
    spawnInterval = Max(10, 90 - 5 * (elapsedFrames \div 120))

\* The interval is 80 after 240 ticks.
EightyAfter240 == elapsedFrames = 240 /\ spawnInterval = 80 /\ obs.mode = "playing"

\* Bullet i and enemy j of the collision pass overlap.
Over(i, j) ==
    LET b == obs.passBullets[i]
        e == obs.passEnemies[j]
    IN  StrictOverlap(b.X, b.Y, b.Size, e.X, e.Y, e.Size)

\* The subsequence of s at the increasing indices idx.
Keeping(s, idx) ==
    LET Kept(t) == t.i \in idx
        Value(t) == t.v
    IN  Map(Value, SelectSeq([i \in 1..Len(s) |-> [i |-> i, v |-> s[i]]], Kept))

Edges == {<<"menu", "playing">>, <<"menu", "settings">>, <<"playing", "dead">>,
          <<"dead", "playing">>, <<"dead", "menu">>, <<"dead", "settings">>}

\* C9: the mode starts as menu; it changes only along menu -> playing,
\* menu -> settings, playing -> dead, dead -> playing, dead -> menu,
\* dead -> settings, and from settings to the mode settings was last
\* entered from (remembered on entry, kept while in settings).
ModeEdges ==
    /\ gameState = "menu"
    /\ [][/\ \/ gameState' = gameState
             \/ <<gameState, gameState'>> \in Edges
             \/ gameState = "settings" /\ gameState' = lastGameState
          /\ gameState # "settings" /\ gameState' = "settings" =>
                 lastGameState' = gameState
          /\ gameState = "settings" => lastGameState' = lastGameState]_vars

\* Settings, entered from the death screen, has been left by the Back button.
BackToDead ==
    /\ obs.mode = "settings"
    /\ gameState = "dead"

\* C10: a step from menu or dead into playing, or from dead to menu, leaves
\* score, elapsed ticks and spawn counter at 0, the spawn interval at 90,
\* the three entity lists empty and the player at the arena centre; the
\* username is unchanged, except from menu into playing, where it becomes
\* the typed name, which is not empty.
ResetOnEntry ==
    [][(\/ gameState \in {"menu", "dead"} /\ gameState' = "playing"
        \/ gameState = "dead" /\ gameState' = "menu") =>
           /\ score' = 0 /\ elapsedFrames' = 0 /\ spawnCounter' = 0
           /\ spawnInterval' = 90
           /\ bullets' = <<>> /\ enemies' = <<>> /\ enemyBullets' = <<>>
           /\ player'.X = 640 \div 2 /\ player'.Y = 480 \div 2
           /\ IF gameState = "menu"
              THEN username' = usernameInput' /\ username' # <<>>
              ELSE username' = username]_vars

\* A new session entered from the death screen after a death with a kill.
PlayAgainAfterKill ==
    /\ obs.mode = "dead"
    /\ obs.scoreBefore > 0
    /\ gameState = "playing"

\* C11: a menu Update in which Enter is pressed while the buffer is empty
\* starts nothing: the username and the session are unchanged and the mode
\* stays menu (unless the same call clicks the Settings button); so the
\* username is not empty whenever the mode is playing or dead.
EmptyNameRejected ==
    /\ [](gameState \in {"playing", "dead"} => username # <<>>)
    /\ [][gameState = "menu" /\ obs'.enter /\ usernameInput' = <<>> =>
              /\ username' = username
              /\ UNCHANGED session
              /\ \/ gameState' = "menu"
                 \/ gameState' = "settings" /\ lastGameState' = "menu"]_vars

\* Enter has been pressed in the menu on an empty buffer.
EnterOnEmptyName ==
    /\ obs.mode = "menu"
    /\ obs.enter
    /\ usernameInput = <<>>
    /\ gameState = "menu"

\* C12: in the state a program start leaves, the table is the file's table
\* if the file is a well-formed record, and an empty mapping if the file is
\* missing, empty or not a well-formed record; the start is never fatal.
LoadEmptyUnlessWellFormed ==
    obs.mode = "" =>
        /\ ~panicked
        /\ scores.HighScores = IF scoreFile.kind = "ok" THEN scoreFile.table
                               ELSE EmptyTable

\* C13: after a playing tick whose death block called saveScores with
\* os.Create failing, the mode is dead, deathScore is the score, the table
\* in memory holds the new record, the process is alive, and the death
\* screen accepts Enter, Escape and each of its buttons.
WriteFailureHidden ==
    obs.mode = "playing" /\ obs.saved > 0 /\ ~obs.created =>
        /\ gameState = "dead"
        /\ ~panicked
        /\ deathScore = score
        /\ Lookup(scores, username) = score
        /\ ENABLED UpdateDead(TRUE, FALSE, NoClick)
        /\ ENABLED UpdateDead(FALSE, TRUE, NoClick)
        /\ \A c \in {OnDeadMenu, OnPlayAgain, OnDeadSettings} :
               ENABLED UpdateDead(FALSE, FALSE, c)

\* A record-setting death whose write failed.
RecordNotWritten ==
    /\ obs.mode = "playing"
    /\ obs.saved > 0
    /\ ~obs.created
    /\ score > obs.stored
    /\ scoreFile # TableFile(scores.HighScores)

\* C14: a playing tick that handles a death with a score above the stored
\* one calls saveScores once, and if the write succeeds the file then holds
\* the whole table in memory, which a load gives back; a death with a score
\* not above the stored one writes nothing; the file changes in no other
\* step; and a program start on a file that holds the table in memory
\* loads that same table.
SaveOnRecordOnly ==
    /\ [](obs.mode = "playing" /\ obs.handled > 0 /\ score > obs.stored =>
              /\ obs.saved = 1
              /\ obs.created =>
                     /\ scoreFile = TableFile(scores.HighScores)
                     /\ loadScores(scoreFile) = scores)
    /\ [][obs'.mode = "playing" /\ obs'.handled > 0 /\ score' <= obs'.stored =>
              obs'.saved = 0 /\ scoreFile' = scoreFile]_vars
    /\ [][scoreFile' # scoreFile =>
              /\ obs'.mode = "playing" /\ obs'.handled > 0
              /\ score' > obs'.stored]_vars
    /\ [][obs'.mode = "" /\ scoreFile = TableFile(scores.HighScores) =>
              scores' = scores]_vars

\* The width and height a custom-size entry asks for.
Asked(text) ==
    LET parts == Split(text, ",")
    IN  IF Len(parts) = 2 /\ Atoi(parts[1]).ok /\ Atoi(parts[2]).ok
        THEN [ok |-> TRUE, w |-> Atoi(parts[1]).n, h |-> Atoi(parts[2]).n]
        ELSE [ok |-> FALSE, w |-> 0, h |-> 0]

\* C15: Enter in the custom-size dialog accepts the entry (stores width and
\* height, selects custom, closes the dialog) exactly when it reads
\* width,height with both at least 100; otherwise the selection and the
\* stored width and height are unchanged.
CustomAtLeast100 ==
    [][gameState = "settings" /\ customInput /\ obs'.enter =>
           LET a == Asked(obs'.text)
           IN  IF a.ok /\ a.w >= 100 /\ a.h >= 100
               THEN /\ customWidth' = a.w /\ customHeight' = a.h
                    /\ selectedScreen' = 3
                    /\ ~customInput'
               ELSE UNCHANGED <<selectedScreen, customWidth, customHeight>>]_vars

Least(a, b) == IF a < b THEN a ELSE b

\* The two boxes have a common part of positive width and positive height.
ShareArea(x1, y1, s1, x2, y2, s2) ==
    /\ Least(x1 + s1, x2 + s2) - Max(x1, x2) > 0
    /\ Least(y1 + s1, y2 + s2) - Max(y1, y2) > 0

\* C16: rectsOverlap is true exactly when the boxes share interior area; it
\* gives the same answer with the boxes exchanged; it is true for two boxes
\* of size 32 at the same position and false for two boxes of size 32 that
\* are exactly 32 apart on one axis.
OverlapIsSharedArea ==
    call.fn = "rectsOverlap" /\ call.done =>
        /\ call.result = ShareArea(call.x1, call.y1, call.s1,
                                   call.x2, call.y2, call.s2)
        /\ call.result = rectsOverlap(call.x2, call.y2, call.s2,
                                      call.x1, call.y1, call.s1)
        /\ call.s1 = 32 /\ call.s2 = 32 =>
               /\ call.x1 = call.x2 /\ call.y1 = call.y2 => call.result
               /\ Abs(call.x1 - call.x2) = 32 \/ Abs(call.y1 - call.y2) = 32 =>
                      ~call.result

\* The call on two boxes of size 32 that touch along a vertical edge.
TouchingBoxes ==
    /\ call.fn = "rectsOverlap" /\ call.done
    /\ call.s1 = 32 /\ call.s2 = 32
    /\ call.x2 = call.x1 + 32 /\ call.y2 = call.y1
    /\ ~call.result

\* The usernames of the table in memory.
Usernames == IF scores.isNil THEN {} ELSE DOMAIN scores.HighScores

\* C17: getTopScores(n) returns min(n, number of usernames) entries, each a
\* different username of the table with its score; the scores do not
\* increase along the list; and no username left out has a score above a
\* score of the list.
LeaderboardIsTop ==
    call.fn = "getTopScores" /\ call.done =>
        LET r == call.result
            shown == {r[i][1] : i \in 1..Len(r)}
        IN  /\ Len(r) = Least(call.n, Cardinality(Usernames))
            /\ Cardinality(shown) = Len(r)
            /\ \A i \in 1..Len(r) :
                   /\ r[i][1] \in Usernames
                   /\ Number(r[i][2]) = scores.HighScores[r[i][1]]
            /\ \A i, j \in 1..Len(r) :
                   i < j => Number(r[i][2]) >= Number(r[j][2])
            /\ \A u \in Usernames \ shown : \A i \in 1..Len(r) :
                   scores.HighScores[u] <= Number(r[i][2])

\* Two of three usernames are listed, one with a score of two digits.
TwoOfThree ==
    /\ call.fn = "getTopScores" /\ call.done
    /\ call.n = 2
    /\ Cardinality(Usernames) = 3
    /\ Len(call.result) = 2
    /\ call.result[1][2] = <<"1", "2">>

\* C18: an Update call in menu, settings or dead mode leaves the player,
\* the three entity lists, the score, deathScore, the spawn counter, the
\* spawn interval, the elapsed ticks and the high-score table as they were,
\* unless it leaves menu or dead, and then it may reset the session in full
\* (deathScore and the table still as they were).
FrozenOutsidePlaying ==
    [][(gameState \in {"menu", "settings", "dead"}) =>
           \/ UNCHANGED <<player, bullets, enemies, enemyBullets, score, deathScore,
                          spawnCounter, spawnInterval, elapsedFrames, scores>>
           \/ /\ gameState \in {"menu", "dead"}
              /\ gameState' # gameState
              /\ player' = [X |-> 320, Y |-> 240, Size |-> 32]
              /\ bullets' = <<>> /\ enemies' = <<>> /\ enemyBullets' = <<>>
              /\ score' = 0 /\ spawnCounter' = 0 /\ spawnInterval' = 90
              /\ elapsedFrames' = 0
              /\ deathScore' = deathScore /\ scores' = scores]_vars

\* An Update call on the settings page, entered from the death screen, with
\* the enemies of the lost session still in the list.
SettingsOverLostSession ==
    /\ obs.mode = "settings"
    /\ gameState = "settings"
    /\ lastGameState = "dead"
    /\ enemies # <<>>
    /\ elapsedFrames > 0

\* The values rand.Intn(screenWidth-64) can return.
SpawnDraws == 0..(screenWidth - 2 * SpawnMargin - 1)

\* C19: a playing tick adds one to the spawn counter; it spawns a batch
\* exactly when the counter has then reached (is at least) the spawn
\* interval as the ramp of that tick left it, and then the counter is 0
\* again; the batch holds
\* 1 + (90 - interval) / 20 enemies, between 1 and 5, each with its top at
\* the bottom edge of the arena and its box between the side walls, whatever
\* the random draw.
SpawnOnInterval ==
    [][(gameState = "playing") =>
           LET c == spawnCounter + 1
               iv == spawnInterval'
               batch == obs'.spawned
           IN  /\ IF c >= iv
                  THEN /\ spawnCounter' = 0
                       /\ Len(batch) = 1 + (90 - iv) \div 20
                       /\ Len(batch) \in 1..5
                       /\ \A i \in 1..Len(batch) :
                              /\ batch[i].Y = screenHeight
                              /\ batch[i].X >= 0
                              /\ batch[i].X + batch[i].Size <= screenWidth
                  ELSE /\ spawnCounter' = c
                       /\ batch = <<>>
               /\ \A rx \in SpawnDraws :
                      /\ NewEnemy(rx, 0).Y = screenHeight
                      /\ NewEnemy(rx, 0).X >= 0
                      /\ NewEnemy(rx, 0).X + NewEnemy(rx, 0).Size <= screenWidth]_vars

\* A playing tick has spawned a batch of three at interval 50.
BatchOfThree ==
    /\ obs.mode = "playing"
    /\ Len(obs.spawned) = 3
    /\ spawnInterval = 50
    /\ spawnCounter = 0

\* The boxes of the enemies es after each has moved by its vertical speed.
AfterMove(es) ==
    [i \in 1..Len(es) |->
        [X |-> es[i].X, Y |-> es[i].Y + es[i].SpeedY, Size |-> es[i].Size]]

Boxes(es) ==
    [i \in 1..Len(es) |-> [X |-> es[i].X, Y |-> es[i].Y, Size |-> es[i].Size]]

\* C20, as stated: the enemy-update step of a playing tick keeps, in order,
\* exactly the enemies whose top edge is not above the top of the arena
\* after the move (y >= 0), and the enemies it removes do not change the
\* score: the score rises only by the enemies the bullet pass removes.
DespawnAtTopEdge ==
    obs.mode = "playing" =>
        LET Inside0(e) == e.Y >= 0
        IN  /\ Boxes(obs.passEnemies) = SelectSeq(AfterMove(obs.moved), Inside0)
            /\ score = obs.scoreBefore + Len(obs.passEnemies) - Len(enemies)

\* C20, amended: the enemy-update step of a playing tick keeps, in order,
\* exactly the enemies whose bottom edge is not above the top of the arena
\* after the move (y + size >= 0), so an enemy is removed in the first tick
\* in which its whole box has scrolled past the top; the enemies it removes
\* do not change the score.
DespawnWhenOffScreen ==
    obs.mode = "playing" =>
        LET Visible(e) == e.Y + e.Size >= 0
        IN  /\ Boxes(obs.passEnemies) = SelectSeq(AfterMove(obs.moved), Visible)
            /\ score = obs.scoreBefore + Len(obs.passEnemies) - Len(enemies)

\* The enemy-update step has removed an enemy that was still partly in the
\* arena before the move, and the score is what it was.
EnemyDespawned ==
    /\ obs.mode = "playing"
    /\ Len(obs.passEnemies) < Len(obs.moved)
    /\ \E i \in 1..Len(obs.moved) :
           /\ obs.moved[i].Y + obs.moved[i].Size >= 0
           /\ obs.moved[i].Y + obs.moved[i].SpeedY + obs.moved[i].Size < 0
    /\ score = obs.scoreBefore

\* The centre of a box.
Centre(b) == <<b.X + b.Size \div 2, b.Y + b.Size \div 2>>

\* The enemies of the list es that the enemy-update step keeps, moved.
KeptMoved(es) ==
    LET Visible(e) == e.Y + e.Size >= 0
    IN  SelectSeq([i \in 1..Len(es) |-> [es[i] EXCEPT !.Y = es[i].Y + es[i].SpeedY]],
                  Visible)

\* C21: in a playing tick every enemy that is not despawned has its cooldown
\* lowered by one; if the cooldown is then at most 0 and its centre is not
\* the player's centre it fires exactly one enemy bullet, a box of side 6
\* centred on the enemy's centre, and its cooldown becomes a value in 60..119;
\* an enemy whose centre is the player's centre creates no bullet, keeps the
\* lowered cooldown, and fires in the next tick if the centres then differ.
CooldownAndFire ==
    /\ obs.mode = "playing" =>
           LET K == KeptMoved(obs.moved)
               Due(e) == e.Cooldown - 1 <= 0 /\ Centre(e) # Centre(player)
               F == SelectSeq(K, Due)
           IN  /\ Len(obs.passEnemies) = Len(K)
               /\ \A i \in 1..Len(K) :
                      IF Due(K[i])
                      THEN obs.passEnemies[i].Cooldown \in 60..119
                      ELSE obs.passEnemies[i].Cooldown = K[i].Cooldown - 1
               /\ Len(obs.fired) = Len(F)
               /\ \A j \in 1..Len(F) :
                      /\ obs.fired[j].X = (Centre(F[j])[1] - 3) * Scale
                      /\ obs.fired[j].Y = (Centre(F[j])[2] - 3) * Scale
                      /\ obs.fired[j].Size = 6
    /\ \A c \in 0..2, rf \in 0..(CooldownSpan - 1) :
           LET p == NewPlayer(320, 240)
               e == [NewEnemy(288, 0) EXCEPT !.Y = 242, !.Cooldown = c]
               r == EnemyStep(e, p, rf)
               again == EnemyStep(r.e, p, rf)
           IN  /\ Centre(r.e) = Centre(p)
               /\ r.kept /\ r.eb = <<>> /\ r.e.Cooldown = c - 1
               /\ c - 1 <= 0 => /\ Len(again.eb) = 1
                                /\ again.e.Cooldown = 60 + rf

\* A playing tick in which one enemy has fired and another has only counted
\* down.
EnemyFired ==
    /\ obs.mode = "playing"
    /\ Len(obs.fired) = 1
    /\ \E i, j \in 1..Len(obs.passEnemies) :
           /\ KeptMoved(obs.moved)[i].Cooldown - 1 <= 0
           /\ obs.passEnemies[i].Cooldown \in 60..119
           /\ KeptMoved(obs.moved)[j].Cooldown - 1 > 0
           /\ obs.passEnemies[j].Cooldown = KeptMoved(obs.moved)[j].Cooldown - 1

\* The box of enemy bullet eb (Scale units to the pixel) meets the arena.
MeetsArena(eb) ==
    /\ eb.X + eb.Size * Scale > 0 /\ eb.X < 640 * Scale
    /\ eb.Y + eb.Size * Scale > 0 /\ eb.Y < 480 * Scale

\* Enemy bullet eb overlaps the player.
OnPlayer(eb) ==
    StrictOverlap(eb.X, eb.Y, eb.Size * Scale,
                  player.X * Scale, player.Y * Scale, player.Size * Scale)

\* C22: the enemy-bullet update of a tick moves every enemy bullet by its
\* velocity and keeps, in order, exactly those whose box then meets the arena
\* (x + size > 0, x < 640, y + size > 0, y < 480); of those, the ones that
\* do not overlap the player are the list at the end of the tick, in which
\* every bullet's box therefore meets the arena.
EnemyBulletsInArena ==
    /\ \A i \in 1..Len(enemyBullets) : MeetsArena(enemyBullets[i])
    /\ obs.mode = "playing" =>
           LET Moved(eb) == [eb EXCEPT !.X = eb.X + eb.SpeedX, !.Y = eb.Y + eb.SpeedY,
                                    !.Age = eb.Age + 1]
               moved == [i \in 1..Len(obs.flying) |-> Moved(obs.flying[i])]
               Missed(eb) == ~OnPlayer(eb)
           IN  /\ obs.atCollision = SelectSeq(moved, MeetsArena)
               /\ enemyBullets = SelectSeq(obs.atCollision, Missed)

\* The enemy-bullet update has removed a bullet that met the arena before
\* the move, while another stayed; the player was not hit.
EnemyBulletLeft ==
    /\ obs.mode = "playing"
    /\ gameState = "playing"
    /\ \E i \in 1..Len(obs.flying) :
           /\ MeetsArena(obs.flying[i])
           /\ ~MeetsArena([obs.flying[i] EXCEPT !.X = @ + obs.flying[i].SpeedX,
                                                !.Y = @ + obs.flying[i].SpeedY])
    /\ Len(obs.atCollision) < Len(obs.flying)
    /\ enemyBullets # <<>>

\* The number of moves after which a box of side size that started in the
\* arena and moves by v a tick along the y axis is wholly outside it.
CrossTicks(size, v) == CeilDiv(screenHeight + size, v) + 1

\* The same for an enemy bullet, which moves on a straight line by nearly 5
\* pixels a tick (each component is rounded down to a sixteenth): Scale
\* units a pixel, the diagonal of the arena widened by the box.
DiagonalTicks ==
    CeilDiv(ISqrt(((screenWidth + EnemyBulletSize) * (screenWidth + EnemyBulletSize)
                   + (screenHeight + EnemyBulletSize) * (screenHeight + EnemyBulletSize))
                  * Scale * Scale),
            EnemyBulletSpeed * Scale - 2) + 1

\* C23: no transient entity stays in its list for longer than it takes to
\* cross the arena: an enemy that is never shot is gone within
\* (480 + 32) / 2 + 1 ticks of its spawn (so the list of enemies is
\* bounded), a player bullet within (480 + 6) / 8 + 1 ticks of the shot, an
\* enemy bullet within the ticks of the arena's diagonal.
EntitiesLeave ==
    /\ \A i \in 1..Len(enemies) :
           (screenHeight - enemies[i].Y) \div 2 <= CrossTicks(EnemySize, 2)
    /\ Len(enemies) <= 5 * CrossTicks(EnemySize, 2)
    /\ \A i \in 1..Len(bullets) : bullets[i].Age <= CrossTicks(BulletSize, 8)
    /\ \A i \in 1..Len(enemyBullets) : enemyBullets[i].Age <= DiagonalTicks

\* C24, as stated: at the end of every playing tick the spawn counter is at
\* least 0 and below the spawn interval, and a batch comes no more ticks
\* after the batch before it (or the start of the session) than the spawn
\* interval in force when it is spawned, the ramp of its tick applied.
GapWithinInterval ==
    /\ 0 <= spawnCounter /\ spawnCounter < spawnInterval
    /\ obs.mode = "playing" /\ obs.spawned # <<>> =>
           obs.counter + 1 <= spawnInterval

\* C24, amended: at the end of every playing tick the spawn counter is at
\* least 0 and below the spawn interval, and a batch comes no more ticks
\* after the batch before it (or the start of the session) than the spawn
\* interval in force before its tick; when the ramp of a tick lowers the
\* interval to the counter's value or below, the batch is spawned in that
\* tick.
GapWithinIntervalBefore ==
    /\ 0 <= spawnCounter /\ spawnCounter < spawnInterval
    /\ obs.mode = "playing" /\ obs.spawned # <<>> =>
           obs.counter + 1 <= obs.interval
    /\ obs.mode = "playing" /\ obs.counter + 1 >= spawnInterval =>
           obs.spawned # <<>> /\ spawnCounter = 0

\* A batch spawned in a tick whose ramp lowered the interval below the
\* counter: it comes more ticks after the batch before it than the new
\* interval.
BatchAfterLoweredInterval ==
    /\ obs.mode = "playing"
    /\ obs.spawned # <<>>
    /\ spawnInterval < obs.interval
    /\ obs.counter + 1 > spawnInterval
    /\ spawnCounter = 0

\* C25: whatever the score file held when it was loaded, the table in memory
\* is a map that can be written: no Update call panics, and the Update call
\* that handles a record-setting death stores the score and ends in mode
\* dead.
LoadedTableUsable ==
    /\ ~panicked
    /\ obs.mode = "playing" /\ obs.handled > 0 /\ username # <<>>
            /\ score > obs.stored =>
           /\ gameState = "dead"
           /\ Lookup(scores, username) = score

\* The enemy at index j of the list of the collision pass overlaps the player.
OnEnemy(j) ==
    LET e == obs.passEnemies[j]
    IN  StrictOverlap(player.X, player.Y, player.Size, e.X, e.Y, e.Size)

\* C26: no enemy in the list at the end of a tick is marked dead; the
\* enemies a player bullet marked dead in a playing tick are out of the list
\* before the enemy-vs-player check, so a death that no enemy bullet caused
\* has an enemy overlapping the player that no bullet hit in that tick.
KilledEnemyHarmless ==
    /\ \A i \in 1..Len(enemies) : ~enemies[i].Dead
    /\ obs.mode = "playing" =>
           /\ enemies = Keeping(obs.passEnemies, (1..Len(obs.passEnemies)) \ obs.dead)
           /\ obs.enemiesAtCollision = enemies
           /\ (/\ obs.handled > 0
               /\ \A i \in 1..Len(obs.atCollision) : ~OnPlayer(obs.atCollision[i])) =>
                  \E j \in (1..Len(obs.passEnemies)) \ obs.dead : OnEnemy(j)

\* A playing tick in which a player bullet killed an enemy that overlapped
\* the player, and the player lives on.
KilledWhileOverlapping ==
    /\ obs.mode = "playing"
    /\ \E j \in obs.dead : OnEnemy(j)
    /\ obs.handled = 0
    /\ gameState = "playing"
    /\ score = obs.scoreBefore + 1
====
